---- MODULE Spec2Model ----
(***************************************************************************)
(* State-machine model of the SQS -> DynamoDB handler of src/index.js      *)
(* (the batched version, lines 1-286): parse phase, batchWriteToDynamoDB   *)
(* with its retry loop, the tail-slice fallback and the response.          *)
(***************************************************************************)
EXTENDS Integers, Sequences, FiniteSets, TLC

\* ---- program constants (src/index.js:10-11) ----
MAX_BATCH_SIZE == 25
MAX_RETRIES == 3

\* ---- bounds of the model ----
\* longest event.Records list
MaxRecords == 26
\* an event.Records list has at most SmallRecords records or at least
\* MAX_BATCH_SIZE - 1 (a group that is nearly full, full, or overflowing)
SmallRecords == 3
\* only the first/last BadSpan queue records may carry an unparsable body
BadSpan == 1
\* the store may return as unprocessed any subset of the first/last
\* RejectSpan items of a submission
RejectSpan == 1
\* only the first FaultSpan single-item writes of the handler's fallback
\* may throw
FaultSpan == 1
\* longest item list handed to fallbackIndividualWrite on its own
MaxFallbackItems == 5
\* most lines of a message content given to the Content Parser
MaxLines == 2
\* most messages built in one cycle of the Record Builder on its own
MaxMessages == 2
\* last millisecond the clock reaches
MaxClock == 2

\* ---- helpers ----
Min(a, b) == IF a < b THEN a ELSE b
Max(a, b) == IF a > b THEN a ELSE b

\* positions 1..n that lie within `span` of either end
Edge(n, span) == {k \in 1..n : k <= span \/ k > n - span}

RECURSIVE PickFrom(_, _, _)
PickFrom(s, P, k) ==
    IF k > Len(s) THEN <<>>
    ELSE (IF k \in P THEN <<s[k]>> ELSE <<>>) \o PickFrom(s, P, k + 1)

\* the subsequence of s at the positions P, in order
Pick(s, P) == PickFrom(s, P, 1)

Range(s) == {s[k] : k \in 1..Len(s)}

\* ---- JavaScript values that the response distinguishes ----
Undefined == [t |-> "undefined"]
Null == [t |-> "null"]
Val(v) == [t |-> "value", v |-> v]

\* JSON.stringify on an object: a property whose value is undefined is
\* omitted, a null property is kept
JSONstringify(obj) ==
    [k \in {p \in DOMAIN obj : obj[p] # Undefined} |-> obj[k]]

\* ---- inputs ----
\* a queue record: body is "envelope" (JSON with a content string),
\* "garbage" (not JSON) or "nocontent" (JSON without content); every
\* message carries its own issue key
QueueRecord(m, body) == [messageId |-> m, body |-> body, issueKey |-> m]

\* the lengths of event.Records
RecordCounts ==
    {n \in 0..MaxRecords : n <= SmallRecords \/ n >= MAX_BATCH_SIZE - 1}

\* the unparsable bodies are not JSON at odd positions and JSON without
\* content at even positions
RecordLists ==
    UNION {
      UNION {
        { [m \in 1..n |-> QueueRecord(m, IF m \notin B THEN "envelope"
                                         ELSE IF m % 2 = 1 THEN "garbage"
                                         ELSE "nocontent")] }
        : B \in SUBSET Edge(n, BadSpan) }
      : n \in RecordCounts }

\* event.Records is a list, is missing (undefined), or is not iterable
Events ==
    {[kind |-> "list", Records |-> rs] : rs \in RecordLists}
    \cup {[kind |-> "missing", Records |-> <<>>],
          [kind |-> "notIterable", Records |-> <<>>]}

VARIABLES
    event,             \* the invocation's argument
    pc,                \* position of the handler
    idx,               \* position of the parse loop in event.Records
    items,             \* built records (handler, line 207)
    parseErrors,       \* handler, line 208
    i,                 \* batchWriteToDynamoDB loop offset (line 101)
    chunk,             \* current group (line 102)
    unprocessedItems,  \* line 118
    retryCount,        \* line 119
    results,           \* batchWriteToDynamoDB results (line 94)
    fallbackResults,   \* handler, line 246
    response,          \* what the handler returned
    table,             \* the store: issueId -> times a put of it was accepted
    requestItems,      \* RequestItems of the last BatchWriteCommand sent
    chunks,            \* the initial group submissions, in order
    batchSends,        \* BatchWriteCommands sent
    groupSends,        \* BatchWriteCommands sent for the current group
    putSends,          \* PutCommands sent
    storeFaulted,      \* the store rejected an item or threw
    thrownGroups,      \* groups (by offset) whose submission threw
    fbItems,           \* fallbackIndividualWrite: its argument
    fbWrites,          \* fallbackIndividualWrite: state of each put
    fbResults,         \* fallbackIndividualWrite: returned results
    fbThrew,           \* fallbackIndividualWrite: the puts that threw
    waits,             \* backoff delays slept for the current group
    inFlight,          \* BatchWriteCommands sent and not yet answered
    groupEnds,         \* how each group ended, in order
    failedItems,       \* handler, line 249
    queue,             \* Record Builder on its own: messages to build
    built,             \* Record Builder on its own: the records built
    now                \* the clock, in milliseconds

vars == <<event, pc, idx, items, parseErrors, i, chunk, unprocessedItems,
          retryCount, results, fallbackResults, response, table,
          requestItems, chunks, batchSends, groupSends, putSends,
          storeFaulted, thrownGroups, fbItems, fbWrites, fbResults,
          fbThrew, waits, inFlight, groupEnds, failedItems, queue, built,
          now>>

parseVars == <<idx, items, parseErrors>>
batchVars == <<i, chunk, unprocessedItems, retryCount, results>>
storeVars == <<table, requestItems, chunks, batchSends, groupSends,
               putSends, storeFaulted, thrownGroups>>
fbVars == <<fbItems, fbWrites, fbResults, fbThrew>>
histVars == <<waits, inFlight, groupEnds, failedItems>>
buildVars == <<queue, built, now>>

NoResponse == [statusCode |-> 0]
EmptyResults == [successful |-> 0, failed |-> 0, errors |-> <<>>]

InitWith(ev, start, its, msgs) ==
    /\ event = ev
    /\ pc = start
    /\ idx = 1
    /\ items = <<>>
    /\ parseErrors = <<>>
    /\ i = 0
    /\ chunk = <<>>
    /\ unprocessedItems = <<>>
    /\ retryCount = 0
    /\ results = EmptyResults
    /\ fallbackResults = Null
    /\ response = NoResponse
    /\ table = [k \in 1..MaxRecords |-> 0]
    /\ requestItems = <<>>
    /\ chunks = <<>>
    /\ batchSends = 0
    /\ groupSends = 0
    /\ putSends = 0
    /\ storeFaulted = FALSE
    /\ thrownGroups = {}
    /\ fbItems = its
    /\ fbWrites = <<>>
    /\ fbResults = Null
    /\ fbThrew = {}
    /\ waits = <<>>
    /\ inFlight = 0
    /\ groupEnds = <<>>
    /\ failedItems = <<>>
    /\ queue = msgs
    /\ built = <<>>
    /\ now = 0

Init == \E ev \in Events : InitWith(ev, "start", <<>>, <<>>)

\* ---- Content Parser and Record Builder, as far as the handler needs ----
\* JSON.parse(record.body) followed by parseJiraContent(message.content):
\* the parsed fields, or the error thrown
ParseRecordBody(record) ==
    CASE record.body = "envelope" ->
             [ok |-> TRUE, fields |-> [issueKey |-> record.issueKey]]
      [] record.body = "garbage" ->
             [ok |-> FALSE, error |-> "SyntaxError"]
      [] OTHER ->
             [ok |-> FALSE, error |-> "TypeError"]

\* the record createDynamoItem builds for a message of the handler's runs,
\* reduced to its issueId: every such message carries a Key of its own, so
\* line 68 yields issueId = issueKey
ItemOf(parsedFields) == [issueId |-> parsedFields.issueKey]

\* ---- handler: entry (lines 202-210) ----
\* line 203 reads event.Records.length outside the try block
HandlerThrows ==
    /\ pc = "start"
    /\ event.kind = "missing"
    /\ pc' = "thrown"
    /\ UNCHANGED <<event, parseVars, batchVars, fallbackResults, response,
                   storeVars, fbVars, histVars,
                   buildVars>>

\* for..of over a value that is not iterable throws inside the try block;
\* lines 270-284 turn it into a 500 response
HandlerError ==
    /\ pc = "start"
    /\ event.kind = "notIterable"
    /\ response' = [statusCode |-> 500,
                    body |-> [message |-> "Processing failed",
                              error |-> "TypeError"]]
    /\ pc' = "done"
    /\ UNCHANGED <<event, parseVars, batchVars, fallbackResults,
                   storeVars, fbVars, histVars,
                   buildVars>>

HandlerBegin ==
    /\ pc = "start"
    /\ event.kind = "list"
    /\ pc' = "parse"
    /\ UNCHANGED <<event, parseVars, batchVars, fallbackResults, response,
                   storeVars, fbVars, histVars,
                   buildVars>>

\* ---- handler: parse phase (lines 210-229) ----
\* a catch block that swallows the failure without recording it
ParseOutcomeSilent(record, its, errs) ==
    LET p == ParseRecordBody(record) IN
    IF p.ok
    THEN [items |-> Append(its, ItemOf(p.fields)),
          parseErrors |-> errs]
    ELSE [items |-> its, parseErrors |-> errs]

\* lines 211-228: the body of the loop over event.Records
ParseOutcome(record, its, errs) ==
    LET p == ParseRecordBody(record) IN
    IF p.ok
    THEN [items |-> Append(its, ItemOf(p.fields)),
          parseErrors |-> errs]
    ELSE [items |-> its,
          parseErrors |-> Append(errs, [messageId |-> record.messageId,
                                        error |-> p.error])]

ParseRecord ==
    /\ pc = "parse"
    /\ idx <= Len(event.Records)
    /\ LET o == ParseOutcome(event.Records[idx], items, parseErrors) IN
         /\ items' = o.items
         /\ parseErrors' = o.parseErrors
    /\ idx' = idx + 1
    /\ UNCHANGED <<event, pc, batchVars, fallbackResults, response,
                   storeVars, fbVars, histVars,
                   buildVars>>

\* the check of line 231 left out
NoItemsNever(its) == FALSE

\* line 231
NoItems(its) == Len(its) = 0

\* lines 231-239
NoValidItems ==
    /\ pc = "parse"
    /\ idx > Len(event.Records)
    /\ NoItems(items)
    /\ response' = [statusCode |-> 400,
                    body |-> JSONstringify(
                        [message |-> Val("No valid items to process"),
                         parseErrors |-> Val(parseErrors)])]
    /\ pc' = "done"
    /\ UNCHANGED <<event, parseVars, batchVars, fallbackResults,
                   storeVars, fbVars, histVars,
                   buildVars>>

\* line 243: call batchWriteToDynamoDB(items)
BatchBegin ==
    /\ pc = "parse"
    /\ idx > Len(event.Records)
    /\ ~NoItems(items)
    /\ pc' = "batch"
    /\ i' = 0
    /\ results' = EmptyResults
    /\ UNCHANGED <<event, parseVars, chunk, unprocessedItems, retryCount,
                   fallbackResults, response, storeVars, fbVars, histVars,
                   buildVars>>

\* ---- batchWriteToDynamoDB (lines 93-155) ----
\* a slice that takes one item too many: slice(off, off + MAX_BATCH_SIZE + 1)
ChunkOverlapping(its, off) ==
    SubSeq(its, off + 1, Min(off + MAX_BATCH_SIZE + 1, Len(its)))

\* items.slice(off, off + MAX_BATCH_SIZE), line 102
Chunk(its, off) == SubSeq(its, off + 1, Min(off + MAX_BATCH_SIZE, Len(its)))

\* an off-by-one retry ceiling: retryCount <= MAX_RETRIES
RetryGuardInclusive(unprocessed, count) ==
    Len(unprocessed) > 0 /\ count <= MAX_RETRIES

\* the loop condition of line 121
RetryGuard(unprocessed, count) ==
    Len(unprocessed) > 0 /\ count < MAX_RETRIES

\* a tally that counts the whole group as processed
GroupTallyWholeGroup(res, grp, unprocessed) ==
    [successful |-> res.successful + Len(grp),
     failed |-> res.failed + Len(unprocessed),
     errors |-> IF Len(unprocessed) > 0
                THEN Append(res.errors,
                            [message |-> "items failed after retries",
                             count |-> Len(unprocessed)])
                ELSE res.errors]

\* a tally that pushes its message for every group
GroupTallyAlwaysError(res, grp, unprocessed) ==
    LET processedCount == Len(grp) - Len(unprocessed) IN
    [successful |-> res.successful + processedCount,
     failed |-> res.failed + Len(unprocessed),
     errors |-> Append(res.errors,
                       [message |-> "items failed after retries",
                        count |-> Len(unprocessed)])]

\* lines 138-145: account for a group whose submissions all returned
GroupTally(res, grp, unprocessed) ==
    LET processedCount == Len(grp) - Len(unprocessed) IN
    [successful |-> res.successful + processedCount,
     failed |-> res.failed + Len(unprocessed),
     errors |-> IF Len(unprocessed) > 0
                THEN Append(res.errors,
                            [message |-> "items failed after retries",
                             count |-> Len(unprocessed)])
                ELSE res.errors]

\* a catch block that counts one failure for the group
GroupCatchOne(res, grp) ==
    [successful |-> res.successful,
     failed |-> res.failed + 1,
     errors |-> Append(res.errors,
                       [message |-> "store exception", count |-> 0])]

\* lines 147-151: a submission of the group threw
GroupCatch(res, grp) ==
    [successful |-> res.successful,
     failed |-> res.failed + Len(grp),
     errors |-> Append(res.errors,
                       [message |-> "store exception", count |-> 0])]

\* the unprocessed lists the store may answer a BatchWriteCommand with
StoreResponses(request) ==
    {Pick(request, P) : P \in SUBSET Edge(Len(request), RejectSpan)}

\* the store persists every requested item it does not return as
\* unprocessed; a submission that throws persists nothing
StoreAccept(tbl, request, unprocessed) ==
    LET accepted == {it.issueId : it \in Range(request)}
                    \ {it.issueId : it \in Range(unprocessed)} IN
    [k \in DOMAIN tbl |-> IF k \in accepted THEN tbl[k] + 1 ELSE tbl[k]]

\* the backoff of line 125 with a linear delay
BackoffLinear(count) == (count + 1) * 100

\* line 125: Math.pow(2, retryCount) * 100
Backoff(count) == (2 ^ count) * 100

\* lines 102-115: the initial BatchWriteCommand of a group is sent
BatchSend ==
    /\ pc = "batch"
    /\ i < Len(items)
    /\ LET grp == Chunk(items, i) IN
         /\ chunk' = grp
         /\ requestItems' = grp
         /\ chunks' = Append(chunks, grp)
    /\ batchSends' = batchSends + 1
    /\ groupSends' = 1
    /\ inFlight' = inFlight + 1
    /\ waits' = <<>>
    /\ pc' = "awaitSubmit"
    /\ UNCHANGED <<event, parseVars, i, unprocessedItems, retryCount,
                   results, fallbackResults, response, table, putSends,
                   storeFaulted, thrownGroups, fbVars, groupEnds,
                   failedItems, buildVars>>

\* lines 115-119: the initial submission of a group returns
BatchSubmit ==
    /\ pc = "awaitSubmit"
    /\ \E unprocessed \in StoreResponses(requestItems) :
         /\ table' = StoreAccept(table, requestItems, unprocessed)
         /\ unprocessedItems' = unprocessed
         /\ storeFaulted' = (storeFaulted \/ unprocessed # <<>>)
    /\ retryCount' = 0
    /\ inFlight' = inFlight - 1
    /\ pc' = "retry"
    /\ UNCHANGED <<event, parseVars, i, chunk, results, fallbackResults,
                   response, requestItems, chunks, batchSends, groupSends,
                   putSends, thrownGroups, fbVars, waits, groupEnds,
                   failedItems, buildVars>>

\* lines 115, 147-151: the initial submission of a group throws
BatchSubmitThrows ==
    /\ pc = "awaitSubmit"
    /\ results' = GroupCatch(results, chunk)
    /\ storeFaulted' = TRUE
    /\ thrownGroups' = thrownGroups \cup {i}
    /\ groupEnds' = Append(groupEnds, [offset |-> i, threw |-> TRUE,
                                       unprocessed |-> 0])
    /\ inFlight' = inFlight - 1
    /\ i' = i + MAX_BATCH_SIZE
    /\ pc' = "batch"
    /\ UNCHANGED <<event, parseVars, chunk, unprocessedItems, retryCount,
                   fallbackResults, response, table, requestItems, chunks,
                   batchSends, groupSends, putSends, fbVars, waits,
                   failedItems, buildVars>>

\* lines 121-133: one pass of the retry loop up to its await: the backoff
\* wait is slept, then the unprocessed items are sent again
RetrySend ==
    /\ pc = "retry"
    /\ RetryGuard(unprocessedItems, retryCount)
    /\ waits' = Append(waits, Backoff(retryCount))
    /\ requestItems' = unprocessedItems
    /\ batchSends' = batchSends + 1
    /\ groupSends' = groupSends + 1
    /\ inFlight' = inFlight + 1
    /\ pc' = "awaitRetry"
    /\ UNCHANGED <<event, parseVars, batchVars, fallbackResults, response,
                   table, chunks, putSends, storeFaulted, thrownGroups,
                   fbVars, groupEnds, failedItems, buildVars>>

\* lines 133-135: the retry submission returns
BatchRetry ==
    /\ pc = "awaitRetry"
    /\ \E unprocessed \in StoreResponses(requestItems) :
         /\ table' = StoreAccept(table, requestItems, unprocessed)
         /\ unprocessedItems' = unprocessed
    /\ retryCount' = retryCount + 1
    /\ inFlight' = inFlight - 1
    /\ pc' = "retry"
    /\ UNCHANGED <<event, parseVars, i, chunk, results, fallbackResults,
                   response, requestItems, chunks, batchSends, groupSends,
                   putSends, storeFaulted, thrownGroups, fbVars, waits,
                   groupEnds, failedItems, buildVars>>

\* lines 133, 147-151: the retry submission throws
BatchRetryThrows ==
    /\ pc = "awaitRetry"
    /\ results' = GroupCatch(results, chunk)
    /\ thrownGroups' = thrownGroups \cup {i}
    /\ groupEnds' = Append(groupEnds, [offset |-> i, threw |-> TRUE,
                                       unprocessed |-> 0])
    /\ inFlight' = inFlight - 1
    /\ i' = i + MAX_BATCH_SIZE
    /\ pc' = "batch"
    /\ UNCHANGED <<event, parseVars, chunk, unprocessedItems, retryCount,
                   fallbackResults, response, table, requestItems, chunks,
                   batchSends, groupSends, putSends, storeFaulted, fbVars,
                   waits, failedItems, buildVars>>

\* the retry loop left although items are unprocessed and retries remain
GroupFinishEarly ==
    /\ pc = "retry"
    /\ results' = GroupTally(results, chunk, unprocessedItems)
    /\ groupEnds' = Append(groupEnds,
                           [offset |-> i, threw |-> FALSE,
                            unprocessed |-> Len(unprocessedItems)])
    /\ i' = i + MAX_BATCH_SIZE
    /\ pc' = "batch"
    /\ UNCHANGED <<event, parseVars, chunk, unprocessedItems, retryCount,
                   fallbackResults, response, storeVars, fbVars, waits,
                   inFlight, failedItems, buildVars>>

\* lines 138-145: the retry loop is left, the group is accounted for
GroupFinish ==
    /\ pc = "retry"
    /\ ~RetryGuard(unprocessedItems, retryCount)
    /\ results' = GroupTally(results, chunk, unprocessedItems)
    /\ groupEnds' = Append(groupEnds,
                           [offset |-> i, threw |-> FALSE,
                            unprocessed |-> Len(unprocessedItems)])
    /\ i' = i + MAX_BATCH_SIZE
    /\ pc' = "batch"
    /\ UNCHANGED <<event, parseVars, chunk, unprocessedItems, retryCount,
                   fallbackResults, response, storeVars, fbVars, waits,
                   inFlight, failedItems, buildVars>>

\* line 154: the loop of line 101 is left, results are returned
BatchReturn ==
    /\ pc = "batch"
    /\ i >= Len(items)
    /\ pc' = "written"
    /\ UNCHANGED <<event, parseVars, batchVars, fallbackResults, response,
                   storeVars, fbVars, histVars,
                   buildVars>>

\* ---- fallbackIndividualWrite (lines 162-197) ----
\* lines 165-178: what the promise of one single-item write settles to;
\* the mapper catches the store's exception itself
PutOutcome(item, threw) ==
    IF threw
    THEN [status |-> "fulfilled",
          value |-> [success |-> FALSE, issueId |-> item.issueId,
                     error |-> "store exception"]]
    ELSE [status |-> "fulfilled",
          value |-> [success |-> TRUE, issueId |-> item.issueId]]

\* a forEach body that counts a failed write without recording its error
CountWriteResultNoError(res, result) ==
    IF result.status = "fulfilled" /\ result.value.success
    THEN [res EXCEPT !.successful = @ + 1]
    ELSE [res EXCEPT !.failed = @ + 1]

\* lines 183-193: the body of writeResults.forEach
CountWriteResult(res, result) ==
    IF result.status = "fulfilled"
    THEN IF result.value.success
         THEN [res EXCEPT !.successful = @ + 1]
         ELSE [res EXCEPT !.failed = @ + 1,
                          !.errors = Append(@, [issueId |-> result.value.issueId,
                                                error |-> result.value.error])]
    ELSE [res EXCEPT !.failed = @ + 1,
                     !.errors = Append(@, [rejected |-> result.reason])]

RECURSIVE ForEachWriteResult(_, _, _)
ForEachWriteResult(writeResults, k, res) ==
    IF k > Len(writeResults) THEN res
    ELSE ForEachWriteResult(writeResults, k + 1,
                            CountWriteResult(res, writeResults[k]))

\* lines 163, 182-196
AggregateWriteResults(writeResults) ==
    ForEachWriteResult(writeResults, 1, EmptyResults)

\* the store persists the item of every PutCommand that does not throw
StorePut(tbl, its, threw) ==
    [k \in DOMAIN tbl |->
        tbl[k] + Cardinality({n \in 1..Len(its) :
                                its[n].issueId = k /\ n \notin threw})]

\* ---- handler: fallback and response (lines 245-268) ----
\* a slice taken from the head of the list: items.slice(0, k)
TailSliceHead(its, k) == SubSeq(its, 1, Min(k, Len(its)))

\* items.slice(-k), line 249
TailSlice(its, k) ==
    IF k = 0 THEN its ELSE SubSeq(its, Max(1, Len(its) - k + 1), Len(its))

\* the test of line 247 written as failed >= 0
NeedsFallbackAlways(batchResults) == batchResults.failed >= 0

\* line 247
NeedsFallback(batchResults) == batchResults.failed > 0

\* lines 247-251: the whole call of fallbackIndividualWrite; `threw` is the
\* set of single-item writes whose PutCommand throws
Fallback ==
    /\ pc = "written"
    /\ NeedsFallback(results)
    /\ failedItems' = TailSlice(items, results.failed)
    /\ \E threw \in SUBSET (1..Min(FaultSpan, Len(failedItems'))) :
         /\ fallbackResults' =
              Val(AggregateWriteResults(
                    [k \in 1..Len(failedItems') |->
                        PutOutcome(failedItems'[k], k \in threw)]))
         /\ table' = StorePut(table, failedItems', threw)
         /\ storeFaulted' = (storeFaulted \/ threw # {})
    /\ putSends' = putSends + Len(failedItems')
    /\ pc' = "respond"
    /\ UNCHANGED <<event, parseVars, batchVars, response, requestItems,
                   chunks, batchSends, groupSends, thrownGroups, fbVars,
                   waits, inFlight, groupEnds, buildVars>>

\* lines 253-258
FinalResults ==
    [totalProcessed |-> Val(Len(items)),
     batchResults |-> Val(results),
     fallbackResults |-> fallbackResults,
     parseErrors |-> IF Len(parseErrors) > 0 THEN Val(parseErrors)
                     ELSE Undefined]

\* lines 253-268
Respond ==
    /\ \/ pc = "respond"
       \/ pc = "written" /\ ~NeedsFallback(results)
    /\ response' = [statusCode |-> 200,
                    body |-> [message |-> "Processing complete",
                              results |-> JSONstringify(FinalResults)]]
    /\ pc' = "done"
    /\ UNCHANGED <<event, parseVars, batchVars, fallbackResults,
                   storeVars, fbVars, histVars,
                   buildVars>>

Next ==
    \/ HandlerThrows
    \/ HandlerError
    \/ HandlerBegin
    \/ ParseRecord
    \/ NoValidItems
    \/ BatchBegin
    \/ BatchSend
    \/ BatchSubmit
    \/ BatchSubmitThrows
    \/ RetrySend
    \/ BatchRetry
    \/ BatchRetryThrows
    \/ GroupFinish
    \/ BatchReturn
    \/ Fallback
    \/ Respond

Spec == Init /\ [][Next]_vars

\* ---- fallbackIndividualWrite on its own, write by write ----
\* the item lists it is called with; two items may carry the same issueId
FallbackInputs ==
    UNION {[1..n -> [issueId : 1..2]] : n \in 0..MaxFallbackItems}

Pending == [status |-> "pending"]

InitFallback ==
    \E its \in FallbackInputs :
        InitWith([kind |-> "list", Records |-> <<>>], "fbStart", its, <<>>)

\* lines 165-178 up to the await of line 172: map() starts every write, so
\* every PutCommand is sent before any of them settles
FallbackMap ==
    /\ pc = "fbStart"
    /\ fbWrites' = [k \in 1..Len(fbItems) |-> Pending]
    /\ putSends' = putSends + Len(fbItems)
    /\ pc' = "fbWait"
    /\ UNCHANGED <<event, parseVars, batchVars, fallbackResults, response,
                   table, requestItems, chunks, batchSends, groupSends,
                   storeFaulted, thrownGroups, fbItems, fbResults, fbThrew,
                   histVars, buildVars>>

\* lines 172-177: one PutCommand returns or throws, in any order
FallbackSettle ==
    /\ pc = "fbWait"
    /\ \E k \in 1..Len(fbItems), threw \in BOOLEAN :
         /\ fbWrites[k] = Pending
         /\ fbWrites' = [fbWrites EXCEPT ![k] = PutOutcome(fbItems[k], threw)]
         /\ table' = StorePut(table, <<fbItems[k]>>,
                              IF threw THEN {1} ELSE {})
         /\ fbThrew' = IF threw THEN fbThrew \cup {k} ELSE fbThrew
         /\ storeFaulted' = (storeFaulted \/ threw)
    /\ UNCHANGED <<event, pc, parseVars, batchVars, fallbackResults,
                   response, requestItems, chunks, batchSends, groupSends,
                   putSends, thrownGroups, fbItems, fbResults, histVars,
                   buildVars>>

\* lines 180-196: Promise.allSettled resolves once every write has settled
FallbackReturn ==
    /\ pc = "fbWait"
    /\ \A k \in 1..Len(fbItems) : fbWrites[k] # Pending
    /\ fbResults' = Val(AggregateWriteResults(fbWrites))
    /\ pc' = "fbDone"
    /\ UNCHANGED <<event, parseVars, batchVars, fallbackResults, response,
                   storeVars, fbItems, fbWrites, fbThrew, histVars,
                   buildVars>>

NextFallback ==
    \/ FallbackMap
    \/ FallbackSettle
    \/ FallbackReturn

SpecFallback == InitFallback /\ [][NextFallback]_vars

\* ---- properties ----
\* ceil(n / MAX_BATCH_SIZE)
GroupCount(n) == (n + MAX_BATCH_SIZE - 1) \div MAX_BATCH_SIZE

\* batchWriteToDynamoDB has returned
BatchReturned == pc \in {"written", "respond", "done"} /\ Len(items) >= 1

RECURSIVE Flatten(_)
Flatten(ss) == IF ss = <<>> THEN <<>> ELSE Head(ss) \o Flatten(Tail(ss))

\* a step that sends a BatchWriteCommand
IsBatchSend == batchSends' = batchSends + 1
\* a step that leaves the retry loop of a group without an exception
IsGroupFinish == pc = "retry" /\ pc' = "batch" /\ batchSends' = batchSends
\* a step in which a submission throws
IsGroupThrow == thrownGroups' # thrownGroups

\* C1: once batchWriteToDynamoDB has returned for N >= 1 records, whatever
\* the store rejected or threw, successful + failed = N.
C1_SuccessfulPlusFailed ==
    BatchReturned => results.successful + results.failed = Len(items)

\* two groups, one ended by an exception, one with items left unprocessed
C1_Witness ==
    /\ BatchReturned
    /\ Len(chunks) = 2
    /\ thrownGroups # {}
    /\ \E k \in 1..Len(results.errors) : results.errors[k].count > 0
    /\ results.successful > 0

\* C2: a retry submission is sent only while the last unprocessed list is
\* non-empty and fewer than MAX_RETRIES retries were made, and it submits
\* exactly that unprocessed list; a group is submitted at most
\* MAX_RETRIES + 1 times; a group that leaves the loop with items still
\* unprocessed has used all retries and exactly those items count as failed.
C2_RetryPolicy ==
    /\ [](groupSends <= MAX_RETRIES + 1)
    /\ [][(IsBatchSend /\ groupSends' > 1) =>
            /\ unprocessedItems # <<>>
            /\ retryCount < MAX_RETRIES
            /\ groupSends' = groupSends + 1
            /\ requestItems' = unprocessedItems]_vars
    /\ [][(pc = "retry" /\ unprocessedItems = <<>>) =>
            (batchSends' = batchSends /\ pc' # "retry")]_vars
    /\ [][(IsGroupFinish /\ unprocessedItems # <<>>) =>
            /\ retryCount = MAX_RETRIES
            /\ groupSends = MAX_RETRIES + 1
            /\ results'.failed = results.failed + Len(unprocessedItems)
            /\ results'.successful =
                 results.successful + Len(chunk) - Len(unprocessedItems)]_vars

\* the same two items were rejected by the initial submission and by each
\* of the three retries, and are now counted as failed
C2_Witness ==
    /\ pc = "batch"
    /\ groupSends = MAX_RETRIES + 1
    /\ retryCount = MAX_RETRIES
    /\ Len(unprocessedItems) = 2
    /\ requestItems = unprocessedItems
    /\ results.failed = 2
    /\ thrownGroups = {}

\* C3: when a submission of a group throws, the whole group is added to
\* failed, nothing is added to successful, one exception message is appended
\* to errors and the loop goes on with the next group, so that every group
\* is still submitted.
C3_HardException ==
    /\ [][IsGroupThrow =>
            /\ results'.failed = results.failed + Len(chunk')
            /\ results'.successful = results.successful
            /\ results'.errors =
                 Append(results.errors,
                        [message |-> "store exception", count |-> 0])
            /\ pc' = "batch"
            /\ i' = i + MAX_BATCH_SIZE]_vars
    /\ [](BatchReturned => Len(chunks) = GroupCount(Len(items)))

\* the first group threw on a retry and the second group was submitted
C3_Witness ==
    /\ BatchReturned
    /\ 0 \in thrownGroups
    /\ Len(chunks) = 2
    /\ batchSends >= 3
    /\ results.failed >= MAX_BATCH_SIZE

\* C10: for N records there are exactly ceil(N / MAX_BATCH_SIZE) initial
\* group submissions; the groups are contiguous, disjoint and in input order
\* (their concatenation is the input list), each has at most MAX_BATCH_SIZE
\* items and all but the last exactly MAX_BATCH_SIZE.
C10_Groups ==
    BatchReturned =>
        /\ Len(chunks) = GroupCount(Len(items))
        /\ Flatten(chunks) = items
        /\ \A k \in 1..Len(chunks) :
             /\ Len(chunks[k]) >= 1
             /\ Len(chunks[k]) <= MAX_BATCH_SIZE
             /\ k < Len(chunks) => Len(chunks[k]) = MAX_BATCH_SIZE

\* 26 records were written as a group of 25 and a group of 1
C10_Witness ==
    /\ BatchReturned
    /\ Len(items) = MAX_BATCH_SIZE + 1
    /\ Len(chunks) = 2
    /\ Len(chunks[2]) = 1

\* C4: every built record is accepted by the store at most once over all
\* batch submissions, retries and single-item writes of one invocation.
C4_AcceptedAtMostOnce ==
    \A k \in DOMAIN table : table[k] <= 1

IsEnvelope(record) == record.body = "envelope"
IsNotEnvelope(record) == record.body # "envelope"

\* fallbackIndividualWrite has returned
FallbackReturned == pc = "fbDone"

\* C5: fallbackIndividualWrite returns (every promise fulfilled, none
\* rejected) with successful = writes that did not throw, failed = writes
\* that threw, successful + failed = K, and one error entry per failed write,
\* in input order, carrying that record's issueId; a settled write's outcome
\* is decided by its own PutCommand only and is never changed by another.
C5_FallbackOutcome ==
    /\ [](FallbackReturned =>
            LET r == fbResults.v
                thrownItems == Pick(fbItems, fbThrew) IN
            /\ r.successful = Len(fbItems) - Cardinality(fbThrew)
            /\ r.failed = Cardinality(fbThrew)
            /\ r.successful + r.failed = Len(fbItems)
            /\ r.errors = [k \in 1..Len(thrownItems) |->
                              [issueId |-> thrownItems[k].issueId,
                               error |-> "store exception"]]
            /\ \A k \in 1..Len(fbItems) :
                 /\ fbWrites[k].status = "fulfilled"
                 /\ fbWrites[k].value.success = (k \notin fbThrew)
                 /\ fbWrites[k].value.issueId = fbItems[k].issueId)
    /\ [][pc = "fbWait" =>
            \A k \in 1..Len(fbItems) :
                fbWrites[k] # Pending => fbWrites'[k] = fbWrites[k]]_vars

\* five writes of which the second and the fourth threw
C5_Witness ==
    /\ FallbackReturned
    /\ Len(fbItems) = 5
    /\ fbThrew = {2, 4}
    /\ fbResults.v.successful = 3
    /\ fbResults.v.failed = 2

\* the parse loop has been left normally
ParseDone == event.kind = "list" /\ pc \notin {"start", "parse"}

\* C6: at the end of the parse phase the built records are exactly the
\* records of the parsable messages, in input order, parseErrors holds the
\* messageId of every other message, in input order, and the two together
\* account for every input queue record.
C6_ParsePhase ==
    ParseDone =>
        LET good == SelectSeq(event.Records, IsEnvelope)
            bad == SelectSeq(event.Records, IsNotEnvelope) IN
        /\ Len(items) + Len(parseErrors) = Len(event.Records)
        /\ items = [k \in 1..Len(good) |-> [issueId |-> good[k].issueKey]]
        /\ Len(parseErrors) = Len(bad)
        /\ \A k \in 1..Len(bad) :
             parseErrors[k].messageId = bad[k].messageId

\* the first message failed to parse and later messages were still built
C6_Witness ==
    /\ ParseDone
    /\ Len(event.Records) >= 3
    /\ event.Records[1].body = "garbage"
    /\ Len(parseErrors) >= 1
    /\ parseErrors[1].messageId = 1
    /\ Len(items) >= 2

\* no input message yields a record
NoRecordBuilt ==
    /\ event.kind = "list"
    /\ \A k \in 1..Len(event.Records) : event.Records[k].body # "envelope"

\* C7: if no input message yields a record, no BatchWriteCommand and no
\* PutCommand is ever sent, nothing is persisted, and the handler returns
\* statusCode 400 with the parseErrors list.
C7_NoValidItems ==
    NoRecordBuilt =>
        /\ batchSends = 0
        /\ putSends = 0
        /\ \A k \in DOMAIN table : table[k] = 0
        /\ pc = "done" =>
             /\ response.statusCode = 400
             /\ response.body.parseErrors = Val(parseErrors)
             /\ Len(parseErrors) = Len(event.Records)

\* every message of a non-empty input failed to parse; the handler returned
C7_Witness ==
    /\ NoRecordBuilt
    /\ Len(event.Records) >= 1
    /\ pc = "done"
    /\ response.statusCode = 400

\* C8: the handler never propagates an exception; it always returns a
\* response whose statusCode is 200, 400 or 500.
C8_NeverThrows ==
    /\ pc # "thrown"
    /\ pc = "done" => response.statusCode \in {200, 400, 500}

\* every message parsed and the store accepted every item at once
AllAcceptedFirstTry ==
    /\ pc = "done"
    /\ event.kind = "list"
    /\ Len(event.Records) >= 1
    /\ \A k \in 1..Len(event.Records) : event.Records[k].body = "envelope"
    /\ ~storeFaulted

\* the part of the happy-path response that does not concern fallbackResults
HappyPathSummary ==
    LET n == Len(event.Records) IN
    /\ response.statusCode = 200
    /\ response.body.results.totalProcessed = Val(n)
    /\ response.body.results.batchResults.v.successful = n
    /\ response.body.results.batchResults.v.failed = 0
    /\ batchSends = GroupCount(n)
    /\ putSends = 0

\* C9 as stated: on the happy path the response is 200 with
\* totalProcessed = successful = N, failed = 0, no retry and no single-item
\* write, and fallbackResults is undefined, that is absent from the results.
C9_FallbackResultsAbsent ==
    AllAcceptedFirstTry =>
        /\ HappyPathSummary
        /\ "fallbackResults" \notin DOMAIN response.body.results

\* C9 amended: the same, but fallbackResults is present with the value null.
C9_FallbackResultsNull ==
    AllAcceptedFirstTry =>
        /\ HappyPathSummary
        /\ "fallbackResults" \in DOMAIN response.body.results
        /\ response.body.results.fallbackResults = Null
        /\ "parseErrors" \notin DOMAIN response.body.results

\* 26 messages, all parsed, both groups accepted at once
C9_Witness ==
    /\ AllAcceptedFirstTry
    /\ Len(event.Records) = MAX_BATCH_SIZE + 1
    /\ response.statusCode = 200

\* ---- Content Parser and Record Builder on their own ----
\* a string: a text followed by a number ("TEST-4"), or a text alone
Str(p, n) == [p |-> p, n |-> n]
EmptyString == Str("", 0)
Blank == Str(" ", 0)

\* value.trim()
Trim(value) == IF value = Blank THEN EmptyString ELSE value

\* the texts that stand before the colon of a line
RawKeys == {" KEY", "Summary", "Title", "Timestamp", "IssueId"}

\* their lengths, that is the index of the colon
RawKeyLength(raw) ==
    CASE raw = " KEY" -> 4
      [] raw = "Summary" -> 7
      [] raw = "Title" -> 5
      [] raw = "Timestamp" -> 9
      [] raw = "IssueId" -> 7

\* substring(0, colonIndex).trim().toLowerCase(), line 25
TrimLower(raw) ==
    CASE raw = " KEY" -> "key"
      [] raw = "Summary" -> "summary"
      [] raw = "Title" -> "title"
      [] raw = "Timestamp" -> "timestamp"
      [] raw = "IssueId" -> "issueid"

\* the texts that stand after the colon of a line
RawValues == {EmptyString, Blank, Str("TEST-", 4), Str("unknown-", 1)}

\* a line: the index of its first colon (-1 if it has none) and the texts
\* on either side of it
Lines ==
    {[colonIndex |-> -1, before |-> "", after |-> EmptyString],
     [colonIndex |-> 0, before |-> "", after |-> Str("TEST-", 4)]}
    \cup {[colonIndex |-> RawKeyLength(raw), before |-> raw, after |-> v] :
            raw \in RawKeys, v \in RawValues}

Contents == UNION {[1..n -> Lines] : n \in 0..MaxLines}

\* contents that consist of at most a Key line
KeyContents ==
    {<<>>} \cup {<<[colonIndex |-> 4, before |-> " KEY", after |-> v]>> :
                   v \in RawValues}

Message(content) == [title |-> Str("Issue ", 1), content |-> content]

\* one message of any content, or several messages with at most a Key line
Queues ==
    {<<Message(c)>> : c \in Contents}
    \cup UNION {[1..n -> {Message(c) : c \in KeyContents}] :
                  n \in 2..MaxMessages}

\* lines 29-51: the attribute a key is stored under
FieldName(key) ==
    CASE key = "key" -> "issueKey"
      [] key = "summary" -> "summary"
      [] key = "priority" -> "priority"
      [] key = "creator" -> "creator"
      [] key = "status" -> "status"
      [] key = "assignee" -> "assignee"
      [] OTHER -> key

\* fields[name] = value
SetField(fields, name, value) ==
    [x \in DOMAIN fields \cup {name} |->
        IF x = name THEN value ELSE fields[x]]

\* lines 23-52: the body of the loop over the lines
ParseLine(fields, line) ==
    IF line.colonIndex > 0
    THEN SetField(fields, FieldName(TrimLower(line.before)),
                  Trim(line.after))
    ELSE fields

RECURSIVE ParseLines(_, _, _)
ParseLines(lines, k, fields) ==
    IF k > Len(lines) THEN fields
    ELSE ParseLines(lines, k + 1, ParseLine(fields, lines[k]))

\* lines 18-56
parseJiraContent(content) == ParseLines(content, 1, <<>>)

\* new Date(isoNow).toISOString()
Iso(millis) == Str("iso ", millis)

\* the raw text of a message as an attribute value
Text(content) == [lines |-> content]

\* line 68 with ?? in place of ||: only a missing issueKey is replaced
IssueIdNullish(parsedFields, dateNow) ==
    IF "issueKey" \in DOMAIN parsedFields
    THEN parsedFields["issueKey"]
    ELSE Str("unknown-", dateNow)

\* line 68: parsedFields.issueKey || `unknown-${Date.now()}`; a missing
\* issueKey and an empty one are both falsy
IssueId(parsedFields, dateNow) ==
    IF "issueKey" \in DOMAIN parsedFields
       /\ parsedFields["issueKey"] # EmptyString
    THEN parsedFields["issueKey"]
    ELSE Str("unknown-", dateNow)

\* line 82: the keys the spread leaves out
FilteredKeys ==
    {"issueKey", "summary", "priority", "creator", "status", "assignee"}

\* lines 64-86; isoNow is the clock read of line 65, dateNow that of
\* line 68.  The spread of lines 80-84 comes last in the object literal, so
\* its attributes replace those written before it.
createDynamoItem(message, parsedFields, isoNow, dateNow) ==
    LET Get(name) == IF name \in DOMAIN parsedFields
                     THEN parsedFields[name] ELSE Undefined
        own == [issueId |-> IssueId(parsedFields, dateNow),
                timestamp |-> Iso(isoNow),
                title |-> message.title,
                summary |-> Get("summary"),
                priority |-> Get("priority"),
                creator |-> Get("creator"),
                status |-> Get("status"),
                assignee |-> Get("assignee"),
                content |-> Text(message.content),
                lastUpdated |-> Iso(isoNow),
                processedAt |-> Iso(isoNow)]
        extra == [n \in DOMAIN parsedFields \ FilteredKeys |->
                    parsedFields[n]]
    IN extra @@ own

InitBuild ==
    \E q \in Queues :
        InitWith([kind |-> "list", Records |-> <<>>], "build", <<>>, q)

\* lines 212-215 for the next message; the clock may advance before each
\* of the two reads of createDynamoItem
BuildRecord ==
    /\ pc = "build"
    /\ Len(built) < Len(queue)
    /\ \E d1 \in 0..1, d2 \in 0..1 :
         LET message == queue[Len(built) + 1]
             isoNow == now + d1
             dateNow == isoNow + d2 IN
         /\ dateNow <= MaxClock
         /\ built' = Append(built,
                [item |-> createDynamoItem(message,
                              parseJiraContent(message.content),
                              isoNow, dateNow),
                 isoNow |-> isoNow,
                 dateNow |-> dateNow])
         /\ now' = dateNow
    /\ UNCHANGED <<event, pc, parseVars, batchVars, fallbackResults,
                   response, storeVars, fbVars, histVars, queue>>

\* every message of the cycle has its record
BuildDone ==
    /\ pc = "build"
    /\ Len(built) = Len(queue)
    /\ pc' = "built"
    /\ UNCHANGED <<event, parseVars, batchVars, fallbackResults, response,
                   storeVars, fbVars, histVars, buildVars>>

NextBuild ==
    \/ BuildRecord
    \/ BuildDone

SpecBuild == InitBuild /\ [][NextBuild]_vars

\* every store call returns or throws, and the handler keeps running
LiveSpec == Init /\ [][Next]_vars /\ WF_vars(Next)

\* the delays of the spec's retry scenario
BackoffDelays == <<100, 200, 400>>

\* C11: the k-th retry submission of a group is preceded by a wait of
\* 2^(k-1) * 100 time units (100, 200, 400); the initial submission of a
\* group is preceded by none, and the attempt counter restarts at 0 for
\* each group.
C11_Backoff ==
    /\ [](/\ groupSends >= 1 => Len(waits) = groupSends - 1
          /\ Len(waits) <= MAX_RETRIES
          /\ \A k \in 1..Len(waits) : waits[k] = BackoffDelays[k])
    /\ [][(IsBatchSend /\ groupSends' > 1) =>
            Len(waits') = Len(waits) + 1]_vars
    /\ [][(IsBatchSend /\ groupSends' = 1) => waits' = <<>>]_vars
    /\ [][(pc = "awaitSubmit" /\ pc' = "retry") => retryCount' = 0]_vars

\* the second group slept 100, 200, 400 after the first group had used
\* its retries as well
C11_Witness ==
    /\ Len(chunks) = 2
    /\ Len(groupEnds) >= 1
    /\ groupEnds[1].unprocessed > 0
    /\ waits = <<100, 200, 400>>
    /\ retryCount = MAX_RETRIES

\* C12: at most one BatchWriteCommand is in flight; the initial submission
\* of a group is sent only after every earlier group has ended (unprocessed
\* list empty, MAX_RETRIES retries used, or exception); the fallback's
\* writes are sent only after the last group has ended.
C12_Sequential ==
    /\ [](inFlight <= 1)
    /\ [](inFlight = 1 => Len(groupEnds) = Len(chunks) - 1)
    /\ [][(IsBatchSend /\ groupSends' = 1 /\ Len(chunks) >= 1) =>
            /\ inFlight = 0
            /\ Len(groupEnds) = Len(chunks)
            /\ \/ groupEnds[Len(groupEnds)].threw
               \/ unprocessedItems = <<>>
               \/ retryCount = MAX_RETRIES]_vars
    /\ [](putSends > 0 =>
            /\ inFlight = 0
            /\ Len(groupEnds) = GroupCount(Len(items)))

\* the second group is in flight after the first used all its retries
C12_Witness ==
    /\ Len(chunks) = 2
    /\ inFlight = 1
    /\ groupEnds[1].unprocessed > 0
    /\ ~groupEnds[1].threw

\* the handler is past the fallback decision of line 247
FallbackDecided ==
    event.kind = "list" /\ pc \in {"respond", "done"} /\ Len(items) >= 1

\* C13: the fallback runs if and only if batchResults.failed = F > 0; it is
\* handed exactly the last F built records, sends F single-item writes, and
\* its successful + failed equals F.
C13_TailSlice ==
    /\ pc = "written" => putSends = 0 /\ fallbackResults = Null
    /\ FallbackDecided =>
         LET F == results.failed
             N == Len(items) IN
         /\ (fallbackResults # Null) <=> (F > 0)
         /\ putSends = F
         /\ F > 0 =>
              /\ failedItems = [k \in 1..F |-> items[N - F + k]]
              /\ fallbackResults.v.successful + fallbackResults.v.failed = F

\* one of 26 records failed in the batch phase and it was not the last one:
\* the fallback was handed the last record all the same
C13_Witness ==
    /\ FallbackDecided
    /\ Len(items) = MAX_BATCH_SIZE + 1
    /\ results.failed = 1
    /\ failedItems = <<items[Len(items)]>>
    /\ table[items[1].issueId] = 0

\* C14: when the handler returns 200, the number of built records that are
\* not in the store equals fallbackResults.failed if the fallback ran and is
\* 0 if it did not.
C14_UnpersistedSurfaced ==
    (pc = "done" /\ response.statusCode = 200) =>
        LET absent == Cardinality({k \in 1..Len(items) :
                                     table[items[k].issueId] = 0}) IN
        absent = IF fallbackResults = Null THEN 0
                 ELSE fallbackResults.v.failed

GroupEndedBadly(g) == g.threw \/ g.unprocessed > 0

\* C15: errors holds one entry per group that ended with failures
\* (unprocessed items left, or an exception), in group order, and none for a
\* fully accepted group; errors is non-empty exactly if failed > 0 and is
\* never longer than the number of groups.
C15_Errors ==
    BatchReturned =>
        LET bad == SelectSeq(groupEnds, GroupEndedBadly) IN
        /\ Len(groupEnds) = GroupCount(Len(items))
        /\ Len(results.errors) = Len(bad)
        /\ \A k \in 1..Len(bad) :
             results.errors[k] =
               IF bad[k].threw
               THEN [message |-> "store exception", count |-> 0]
               ELSE [message |-> "items failed after retries",
                     count |-> bad[k].unprocessed]
        /\ (results.errors # <<>>) <=> (results.failed > 0)
        /\ Len(results.errors) <= GroupCount(Len(items))

\* the first group was fully accepted, the second left items unprocessed
C15_Witness ==
    /\ BatchReturned
    /\ Len(groupEnds) = 2
    /\ ~GroupEndedBadly(groupEnds[1])
    /\ groupEnds[2].unprocessed > 0
    /\ Len(results.errors) = 1

\* the records the store holds when batchWriteToDynamoDB returns
AcceptedInBatch == {k \in 1..Len(items) : table[items[k].issueId] >= 1}
\* the offset of the group of the k-th record
GroupOffset(k) == ((k - 1) \div MAX_BATCH_SIZE) * MAX_BATCH_SIZE

\* C19 as stated: when batchWriteToDynamoDB returns, successful is the
\* number of records the store accepted and failed the number it did not.
C19_CountsMatchStore ==
    (pc = "written" /\ Len(items) >= 1) =>
        /\ results.successful = Cardinality(AcceptedInBatch)
        /\ results.failed = Len(items) - Cardinality(AcceptedInBatch)

\* C19 amended: successful is the number of records the store accepted in
\* groups none of whose submissions threw, and failed is N minus that; so
\* successful never exceeds what the store accepted.
C19_CountsExcludeThrownGroups ==
    (pc = "written" /\ Len(items) >= 1) =>
        LET counted == {k \in AcceptedInBatch :
                          GroupOffset(k) \notin thrownGroups} IN
        /\ results.successful = Cardinality(counted)
        /\ results.failed = Len(items) - Cardinality(counted)
        /\ results.successful <= Cardinality(AcceptedInBatch)

\* a retry threw after the initial submission had accepted items
C19_Witness ==
    /\ pc = "written"
    /\ \E k \in AcceptedInBatch : GroupOffset(k) \in thrownGroups
    /\ results.successful < Cardinality(AcceptedInBatch)

\* C20: an invocation on an input list ends with a response, and it never
\* sends more than (MAX_RETRIES + 1) * ceil(N / MAX_BATCH_SIZE)
\* BatchWriteCommands or more than N PutCommands for N built records.
C20_Terminates ==
    /\ [](/\ batchSends <= (MAX_RETRIES + 1) * GroupCount(Len(items))
          /\ putSends <= Len(items))
    /\ (event.kind = "list") =>
          <>(pc = "done" /\ response.statusCode \in {200, 400})

\* both groups were sent four times and every record was written singly
C20_Witness ==
    /\ pc = "done"
    /\ Len(items) = MAX_BATCH_SIZE + 1
    /\ batchSends = (MAX_RETRIES + 1) * 2
    /\ putSends = Len(items)

TypeOK ==
    /\ pc \in {"start", "parse", "batch", "awaitSubmit", "retry",
               "awaitRetry", "written", "respond", "build", "built",
               "done", "thrown", "fbStart", "fbWait", "fbDone"}
    /\ retryCount \in 0..MAX_RETRIES
    /\ results.successful \in 0..MaxRecords
    /\ results.failed \in 0..MaxRecords

\* ---- Record Builder claims ----
\* the fields parsed for the k-th message of the cycle
FieldsOf(k) == parseJiraContent(queue[k].content)

\* the k-th record took its issueId from the clock
Generated(k) ==
    \/ "issueKey" \notin DOMAIN FieldsOf(k)
    \/ FieldsOf(k)["issueKey"] = EmptyString

\* the attribute of parsedFields, undefined if it is missing
FieldOrUndefined(k, name) ==
    IF name \in DOMAIN FieldsOf(k) THEN FieldsOf(k)[name] ELSE Undefined

\* C16: every attribute the builder sets itself keeps the builder's value in
\* the record, whatever extension attributes the content brings along.
C16_BuilderAttributesKept ==
    \A k \in 1..Len(built) :
        LET item == built[k].item IN
        /\ item["issueId"] = IssueId(FieldsOf(k), built[k].dateNow)
        /\ item["timestamp"] = Iso(built[k].isoNow)
        /\ item["title"] = queue[k].title
        /\ item["content"] = Text(queue[k].content)
        /\ item["lastUpdated"] = Iso(built[k].isoNow)
        /\ item["processedAt"] = Iso(built[k].isoNow)
        /\ \A name \in FilteredKeys \ {"issueKey"} :
               item[name] = FieldOrUndefined(k, name)

\* C17: two records of one cycle that share (issueId, timestamp) both carry
\* an issueId generated from the clock in the same millisecond.
C17_KeysDistinct ==
    \A j \in 1..Len(built), k \in 1..Len(built) :
        (/\ j < k
         /\ built[j].item["issueId"] = built[k].item["issueId"]
         /\ built[j].item["timestamp"] = built[k].item["timestamp"])
        => (/\ Generated(j)
            /\ Generated(k)
            /\ built[j].dateNow = built[k].dateNow)

\* C18 as stated: issueId is the parsed issueKey whenever a Key line produced
\* one, has the generated form only when none was parsed, and is never empty.
C18_IssueIdIsIssueKey ==
    \A k \in 1..Len(built) :
        LET issueId == built[k].item["issueId"] IN
        /\ "issueKey" \in DOMAIN FieldsOf(k)
               => issueId = FieldsOf(k)["issueKey"]
        /\ issueId.p = "unknown-" => "issueKey" \notin DOMAIN FieldsOf(k)
        /\ issueId # EmptyString

\* C18 amended: issueId is the parsed issueKey whenever that is a non-empty
\* string; it is unknown-<millis of the clock> when no Key line was parsed or
\* the last Key line has an empty value; it is never the empty string.
C18_IssueIdNonEmpty ==
    \A k \in 1..Len(built) :
        LET issueId == built[k].item["issueId"] IN
        /\ ~Generated(k) => issueId = FieldsOf(k)["issueKey"]
        /\ Generated(k) => issueId = Str("unknown-", built[k].dateNow)
        /\ issueId # EmptyString

\* a Key line with an empty value, and a second message whose Key line has
\* a value: the first record carries a generated issueId, the second its key
C18_Witness ==
    /\ pc = "built"
    /\ Len(built) = 2
    /\ "issueKey" \in DOMAIN FieldsOf(1)
    /\ Generated(1)
    /\ built[1].item["issueId"] = Str("unknown-", built[1].dateNow)
    /\ built[2].item["issueId"] = Str("TEST-", 4)

====
